---- MODULE Spec2Model ----
(***************************************************************************)
(* Model of the watermark labelling client: the Store (state.js), the     *)
(* store-based controller (main.js: selectDataset, loadCurrentImage,      *)
(* updateProgress, handleAnnotation, handleSkip, handleDelete,            *)
(* handleNavigate, handleUndo), the subscriber that renders the store     *)
(* (ui.js: updateImageDisplay, updateStats), the listeners of bindEvents, *)
(* and the remote dataset service the controller calls through ApiClient. *)
(* Every handler is an async function: it runs synchronously up to its    *)
(* next await, the request is then handled by the server at some later    *)
(* step, and the response resumes the handler at another later step.      *)
(* Several handlers can be suspended at the same time.                    *)
(*                                                                         *)
(* Spec and ShortSpec let handlers overlap; SoloSpec runs one handler at  *)
(* a time; InputSpec is the dispatch of keys and buttons taken alone;     *)
(* RenderSpec is ui.updateStats taken alone; StoreSpec is the Store class *)
(* taken alone; DoubleSpec is selecting, annotating and skipping on a     *)
(* listing of three images.                                               *)
(***************************************************************************)
EXTENDS Integers, Sequences, FiniteSets, TLC

\* ---------------------------------------------------------------- bounds
MaxOps == 3        \* operator actions (clicks, key presses) in one run of Spec, DoubleSpec
ShortOps == 2      \* operator actions in one run of ShortSpec
MaxTasks == 2      \* handler invocations suspended at the same time
SoloOps == 3       \* operator actions in one run of SoloSpec
MaxCount == 10     \* largest count or target handed to ui.updateStats in RenderSpec

\* ---------------------------------------------------------------- values
null == "null"

Datasets == {"A", "B"}

\* the image listings the service starts with
InitImages == [A |-> <<"a1", "a2">>, B |-> <<"b1">>]

\* the dataset an image path was listed under when the session started
DatasetOf(p) == CHOOSE d \in Datasets : \E i \in 1..Len(InitImages[d]) : InitImages[d][i] = p

\* GET /types: A has both targets, B is configured without target_count
TypeList == << [name |-> "A", target_count |-> [watermarked |-> 1, non_watermarked |-> 2]],
               [name |-> "B"] >>

Labels == {0, 1}

NoInfo == [path |-> null, index |-> 0, status |-> "pending"]
NoResult == [none |-> TRUE]

SeqToSet(s) == {s[i] : i \in 1..Len(s)}

RemoveAt(s, i) == SubSeq(s, 1, i - 1) \o SubSeq(s, i + 1, Len(s))

IndexOf(s, x) == CHOOSE i \in 1..Len(s) : s[i] = x

\* ---------------------------------------------------------------- Store
\* A context is the store's state together with what the running step has
\* shown so far: the states handed to the subscriber and the toasts.
\* replaced says that this.state has been assigned a new object in the step.
Ctx(state) == [state |-> state, notes |-> <<>>, toasts |-> <<>>, replaced |-> FALSE]

\* { ...a, ...b } for records
Merge(a, b) == [f \in DOMAIN a \cup DOMAIN b |-> IF f \in DOMAIN b THEN b[f] ELSE a[f]]

InitState ==
    [currentDataset |-> null,
     datasets |-> <<>>,
     image |-> [data |-> null, path |-> null, index |-> 0, total |-> 0, status |-> "pending"],
     stats |-> [watermarked |-> 0, noWatermarked |-> 0,
                targetWatermarked |-> 0, targetNoWatermarked |-> 0],
     isLoading |-> FALSE]

notify(c) == [c EXCEPT !.notes = Append(@, c.state)]

setState_ifChanged(c, newState) ==
    IF Merge(c.state, newState) = c.state THEN c
    ELSE notify([c EXCEPT !.state = Merge(c.state, newState), !.replaced = TRUE])

setState_inPlace(c, newState) == notify([c EXCEPT !.state = Merge(c.state, newState)])

setState(c, newState) ==
    notify([c EXCEPT !.state = Merge(c.state, newState), !.replaced = TRUE])

updateDataset(c, datasetName) == setState(c, [currentDataset |-> datasetName])

updateImage(c, imageInfo) == setState(c, [image |-> Merge(c.state.image, imageInfo)])

updateStats(c, stats) == setState(c, [stats |-> Merge(c.state.stats, stats)])

setLoading(c, loading) == setState(c, [isLoading |-> loading])

showToast(c, message, type) == [c EXCEPT !.toasts = Append(@, [message |-> message, type |-> type])]

\* x || 0 for a field that may be missing from the record
Or0(r, f) == IF f \in DOMAIN r THEN r[f] ELSE 0

\* ---------------------------------------------------------------- ui.js
\* The elements the subscriber writes: the two stat texts and their
\* 'complete' class, the image counter, the file name, and whether the
\* image and the empty-state placeholder carry the 'hidden' class.
InitDom ==
    [statWm |-> <<>>, statNwm |-> <<>>, statPillWm |-> FALSE, statPillNwm |-> FALSE,
     counterCurrent |-> 0, counterTotal |-> 0, currentImageName |-> "-",
     mainImageHidden |-> TRUE, emptyStateHidden |-> FALSE]

\* `${current}/${target}`
StatText(current, target) == <<current, "/", target>>

\* variant: a count that reached its target is complete whatever the target
Complete_anyTarget(current, target) == current >= target

Complete(current, target) == target > 0 /\ current >= target

ui_updateStats(dom, stats) ==
    [dom EXCEPT !.statWm = StatText(stats.watermarked, stats.targetWatermarked),
                !.statNwm = StatText(stats.noWatermarked, stats.targetNoWatermarked),
                !.statPillWm = Complete(stats.watermarked, stats.targetWatermarked),
                !.statPillNwm = Complete(stats.noWatermarked, stats.targetNoWatermarked)]

ui_updateImageDisplay(dom, imageState) ==
    [dom EXCEPT !.counterCurrent = IF imageState.total > 0 THEN imageState.index + 1 ELSE 0,
                !.counterTotal = imageState.total,
                !.currentImageName = IF imageState.path # null THEN imageState.path ELSE "-",
                !.mainImageHidden = (imageState.data = null),
                !.emptyStateHidden = IF imageState.data # null THEN TRUE
                                     ELSE IF imageState.total = 0 THEN FALSE ELSE @]

\* the listener bindEvents subscribes
Subscriber(dom, state) == ui_updateStats(ui_updateImageDisplay(dom, state.image), state.stats)

RECURSIVE RenderAll(_, _)
RenderAll(dom, states) ==
    IF states = <<>> THEN dom
    ELSE RenderAll(Subscriber(dom, Head(states)), Tail(states))

\* ---------------------------------------------------------------- tasks
\* One record per invocation of a handler that has not returned yet:
\*   op      the handler that was invoked
\*   pc      the ApiClient call it is suspended on
\*   rstatus "sent" (request on its way), "ok"/"err" (response on its way)
\*   rds     the dataset_type argument of that call
\*   ds, path, label   the handler's `state` snapshot and arguments
\*   info    loadCurrentImage's local `info`
\*   result  the body of the response
\*   err     the message of the Error the awaited call rejected with
NewTask(id, op) ==
    [id |-> id, op |-> op, pc |-> "start", rstatus |-> "none", rds |-> null,
     ds |-> null, path |-> null, label |-> 0, info |-> NoInfo, result |-> NoResult,
     err |-> null]

Await(t, call, dataset) ==
    [t EXCEPT !.pc = call, !.rstatus = "sent", !.rds = dataset, !.result = NoResult,
              !.err = null]

\* `prefix: ${err.message}`
ErrText(prefix, message) == <<prefix, message>>

\* fetch itself rejected
FetchError == "Failed to fetch"

\* ApiClient.request on a response that is not ok
RequestError(errorData) ==
    IF "detail" \in DOMAIN errorData THEN errorData.detail ELSE "Request failed"

Return(c, t) == [ctx |-> c, task |-> [t EXCEPT !.pc = "done", !.rstatus = "none"]]

Suspend(c, t) == [ctx |-> c, task |-> t]

\* ---------------------------------------------------------------- main.js
\* updateProgress up to its await
updateProgress(c, t) ==
    LET dataset == c.state.currentDataset
    IN  IF dataset = null THEN Return(c, t)
        ELSE Suspend(c, Await(t, "getProgress", dataset))

\* updateProgress after api.getProgress resolved
updateProgress_then(c, t) ==
    LET progress == t.result
        c1 == updateStats(c, [watermarked |-> progress.watermarked_count,
                              noWatermarked |-> progress.non_watermarked_count])
        c2 == updateImage(c1, [total |-> progress.total_images])
    IN  Return(c2, t)

\* updateProgress after api.getProgress rejected: silent
updateProgress_catch(c, t) == Return(c, t)

\* what the caller of loadCurrentImage does once the awaited call returns
AfterLoad(c, t) ==
    IF t.op \in {"selectDataset", "handleAnnotation", "handleDelete", "handleUndo"}
    THEN updateProgress(c, t)
    ELSE Return(c, t)

\* finally, and return to the caller (info goes out of scope)
loadCurrentImage_finally(c, t) == AfterLoad(setLoading(c, FALSE), [t EXCEPT !.info = NoInfo])

\* variant: the early return for an unset dataset is missing
loadCurrentImage_noGuard(c, t) ==
    Suspend(setLoading(c, TRUE), Await(t, "getCurrentImage", c.state.currentDataset))

\* loadCurrentImage up to its first await
loadCurrentImage(c, t) ==
    LET dataset == c.state.currentDataset
    IN  IF dataset = null THEN AfterLoad(c, t)
        ELSE Suspend(setLoading(c, TRUE), Await(t, "getCurrentImage", dataset))

\* api.getCurrentImage resolved: keep info, ask for the pixels of info.index
loadCurrentImage_info(c, t) ==
    Suspend(c, [Await(t, "getImageBase64", t.rds) EXCEPT !.info = t.result])

\* api.getImageBase64 resolved
loadCurrentImage_then(c, t) ==
    LET c1 == updateImage(c, [data |-> t.result.base64, path |-> t.info.path,
                              index |-> t.info.index, status |-> t.info.status])
    IN  loadCurrentImage_finally(c1, t)

\* variant: isLoading reset at the end of the try block instead of in finally
loadCurrentImage_catch_noFinally(c, t) ==
    AfterLoad(updateImage(c, [data |-> null, path |-> null]), [t EXCEPT !.info = NoInfo])

\* variant: a failed load keeps the image record it found
loadCurrentImage_catch_keep(c, t) == loadCurrentImage_finally(c, t)

\* variant: a failed load is tried again
loadCurrentImage_catch_retry(c, t) == Suspend(c, Await(t, "getCurrentImage", t.rds))

\* either call rejected
loadCurrentImage_catch(c, t) ==
    loadCurrentImage_finally(updateImage(c, [data |-> null, path |-> null]), t)

FindDataset(datasets, name) == {i \in 1..Len(datasets) : datasets[i].name = name}

SelectBody(c, t, name) ==
    LET c1 == updateDataset(c, name)
        found == FindDataset(c1.state.datasets, name)
        c2 == IF found # {}
              THEN LET dataset == c1.state.datasets[CHOOSE i \in found : \A j \in found : i <= j]
                   IN  IF "target_count" \in DOMAIN dataset
                       THEN updateStats(c1,
                              [targetWatermarked |-> Or0(dataset.target_count, "watermarked"),
                               targetNoWatermarked |-> Or0(dataset.target_count, "non_watermarked")])
                       ELSE c1
              ELSE c1
    IN  loadCurrentImage(c2, t)

\* variant: the early return for the already selected dataset is missing
selectDataset_noGuard(c, t, name) == SelectBody(c, t, name)

selectDataset(c, t, name) ==
    IF c.state.currentDataset = name THEN Return(c, t)
    ELSE SelectBody(c, t, name)

\* refreshDatasets + the rest of init
refreshDatasets(c, t) == Suspend(c, Await(t, "getTypes", null))

refreshDatasets_then(c, t) ==
    Return(showToast(setState(c, [datasets |-> t.result.types]), "ready", "info"), t)

refreshDatasets_catch(c, t) ==
    Return(showToast(showToast(c, "cannot load dataset types", "error"), "ready", "info"), t)

StatusOf(label) == IF label = 1 THEN "watermarked" ELSE "no_watermark"

\* variant: the new status is shown before the write is sent
handleAnnotation_optimistic(c, t, label) ==
    LET state == c.state
    IN  IF state.currentDataset = null \/ state.image.path = null
        THEN Return(showToast(c, "select a dataset first", "warning"), t)
        ELSE Suspend(updateImage(c, [status |-> StatusOf(label)]),
                     [Await(t, "createAnnotation", state.currentDataset)
                        EXCEPT !.ds = state.currentDataset,
                               !.path = state.image.path, !.label = label])

\* variant: the follow-up navigation is sent without waiting for the write
handleAnnotation_eager(c, t, label) ==
    LET state == c.state
    IN  IF state.currentDataset = null \/ state.image.path = null
        THEN Return(showToast(c, "select a dataset first", "warning"), t)
        ELSE Suspend(c, [Await(t, "navigateNext", state.currentDataset)
                           EXCEPT !.ds = state.currentDataset,
                                  !.path = state.image.path, !.label = label])

handleAnnotation(c, t, label) ==
    LET state == c.state
    IN  IF state.currentDataset = null \/ state.image.path = null
        THEN Return(showToast(c, "select a dataset first", "warning"), t)
        ELSE Suspend(c, [Await(t, "createAnnotation", state.currentDataset)
                           EXCEPT !.ds = state.currentDataset,
                                  !.path = state.image.path, !.label = label])

\* variant: the count of the new label is incremented as soon as the write succeeds
handleAnnotation_then_bump(c, t) ==
    LET c1 == IF t.label = 1
              THEN updateStats(c, [watermarked |-> c.state.stats.watermarked + 1])
              ELSE updateStats(c, [noWatermarked |-> c.state.stats.noWatermarked + 1])
    IN  Suspend(showToast(c1, "marked", IF t.label = 1 THEN "error" ELSE "success"),
                Await(t, "navigateNext", t.ds))

handleAnnotation_then(c, t) ==
    Suspend(showToast(c, "marked", IF t.label = 1 THEN "error" ELSE "success"),
            Await(t, "navigateNext", t.ds))

\* variant: a failed write is followed up like a successful one
handleAnnotation_catch_goOn(c, t) ==
    Suspend(showToast(c, ErrText("operation failed", t.err), "error"),
            Await(t, "navigateNext", t.ds))

handleAnnotation_catch(c, t) ==
    Return(showToast(c, ErrText("operation failed", t.err), "error"), t)

\* variant: the skip is recorded as a label
handleSkip_asLabel(c, t) ==
    LET state == c.state
    IN  IF state.currentDataset = null \/ state.image.path = null
        THEN Return(c, t)
        ELSE Suspend(c, [Await(t, "createAnnotation", state.currentDataset)
                           EXCEPT !.ds = state.currentDataset, !.path = state.image.path])

handleSkip(c, t) ==
    LET state == c.state
    IN  IF state.currentDataset = null \/ state.image.path = null
        THEN Return(c, t)
        ELSE Suspend(c, [Await(t, "skipImage", state.currentDataset)
                           EXCEPT !.ds = state.currentDataset, !.path = state.image.path])

handleSkip_then(c, t) ==
    Suspend(showToast(c, "skipped", "info"), Await(t, "navigateNext", t.ds))

handleSkip_catch(c, t) == Return(showToast(c, ErrText("skip failed", t.err), "error"), t)

\* variant: the request is sent whatever the operator answers
handleDelete_noConfirm(c, t, confirmed) ==
    LET state == c.state
    IN  IF state.currentDataset = null \/ state.image.path = null
        THEN Return(c, t)
        ELSE Suspend(c, [Await(t, "deleteImage", state.currentDataset)
                           EXCEPT !.ds = state.currentDataset, !.path = state.image.path])

handleDelete(c, t, confirmed) ==
    LET state == c.state
    IN  IF state.currentDataset = null \/ state.image.path = null
        THEN Return(c, t)
        ELSE IF ~confirmed THEN Return(c, t)
        ELSE Suspend(c, [Await(t, "deleteImage", state.currentDataset)
                           EXCEPT !.ds = state.currentDataset, !.path = state.image.path])

handleDelete_then(c, t) == loadCurrentImage(showToast(c, "image deleted", "success"), t)

handleDelete_catch(c, t) == Return(showToast(c, ErrText("delete failed", t.err), "error"), t)

handleNavigate(c, t, direction) ==
    LET dataset == c.state.currentDataset
    IN  IF dataset = null THEN Return(c, t)
        ELSE Suspend(c, [Await(t, IF direction = "next" THEN "navigateNext" ELSE "navigatePrev",
                                 dataset) EXCEPT !.ds = dataset])

handleNavigate_catch(c, t) == Return(showToast(c, "cannot navigate", "error"), t)

\* api.undo() names no dataset
handleUndo(c, t) == Suspend(c, Await(t, "undo", null))

\* variant: an applied undo refreshes the progress but does not reload the image
handleUndo_then_noReload(c, t) ==
    LET res == t.result
    IN  IF res.success THEN updateProgress(showToast(c, "undone", "info"), t)
        ELSE Return(showToast(c, res.message, "warning"), t)

\* variant: an undo the service did not apply is followed up like an applied one
handleUndo_then_always(c, t) == loadCurrentImage(showToast(c, "undone", "info"), t)

handleUndo_then(c, t) ==
    LET res == t.result
    IN  IF res.success THEN loadCurrentImage(showToast(c, "undone", "info"), t)
        ELSE Return(showToast(c, res.message, "warning"), t)

handleUndo_catch(c, t) == Return(showToast(c, "undo failed", "error"), t)

\* ---------------------------------------------------------------- bindEvents
\* what an operator input makes the controller call
Call(fn, arg) == [fn |-> fn, arg |-> arg]

NoCall == Call("none", null)

Buttons == {"btn-export", "btn-delete", "btn-prev", "btn-next", "btn-undo",
            "btn-watermarked", "btn-no-watermarked", "btn-skip",
            "btn-add-type", "btn-manage", "modal-close", "modal-cancel", "modal-save"}

onclick(id) ==
    CASE id = "btn-export" -> Call("handleExport", null)
      [] id = "btn-delete" -> Call("handleDelete", null)
      [] id = "btn-prev" -> Call("handleNavigate", "prev")
      [] id = "btn-next" -> Call("handleNavigate", "next")
      [] id = "btn-undo" -> Call("handleUndo", null)
      [] id = "btn-watermarked" -> Call("handleAnnotation", "1")
      [] id = "btn-no-watermarked" -> Call("handleAnnotation", "0")
      [] id = "btn-skip" -> Call("handleSkip", null)
      [] id \in {"btn-add-type", "btn-manage"} -> Call("toggleModal", "true")
      [] id \in {"modal-close", "modal-cancel"} -> Call("toggleModal", "false")
      [] id = "modal-save" -> Call("createNewDataset", null)

\* the values of KeyboardEvent.key the operator is taken to press
Keys == {"1", "2", "w", "W", "n", "a", "A", "d", "D", "s", "S", "x", "Delete",
         "ArrowRight", "ArrowLeft", "z", "Z", "y", "Y", "q"}

toLowerCase(k) ==
    CASE k = "W" -> "w"
      [] k = "A" -> "a"
      [] k = "D" -> "d"
      [] k = "S" -> "s"
      [] k = "Z" -> "z"
      [] k = "Y" -> "y"
      [] k = "Delete" -> "delete"
      [] k = "ArrowRight" -> "arrowright"
      [] k = "ArrowLeft" -> "arrowleft"
      [] OTHER -> k

TagNames == {"BODY", "INPUT", "TEXTAREA"}

KeyEvents == [key : Keys, ctrlKey : BOOLEAN, metaKey : BOOLEAN, tagName : TagNames]

\* the keydown listener; the switch takes the first matching case, so its
\* second `case 's'` (save) is never taken
keydown(e) ==
    IF e.tagName = "INPUT" \/ e.tagName = "TEXTAREA" THEN NoCall
    ELSE LET k == toLowerCase(e.key)
         IN  IF k \in {"1", "w", "a"} THEN Call("handleAnnotation", "1")
             ELSE IF k \in {"2", "n", "d"} THEN Call("handleAnnotation", "0")
             ELSE IF k = "s" THEN Call("handleSkip", null)
             ELSE IF k \in {"x", "delete"} THEN Call("handleDelete", null)
             ELSE IF k = "arrowright" THEN Call("handleNavigate", "next")
             ELSE IF k = "arrowleft" THEN Call("handleNavigate", "prev")
             ELSE IF k = "z"
                  THEN (IF e.ctrlKey \/ e.metaKey THEN Call("handleUndo", null) ELSE NoCall)
             ELSE NoCall

NoInput ==
    [kind |-> "none", control |-> null, ctrlKey |-> FALSE, metaKey |-> FALSE,
     tagName |-> "BODY", call |-> NoCall]

\* the continuation of a suspended handler when its awaited call resolves
Resolve(c, t) ==
    CASE t.pc = "getTypes" -> refreshDatasets_then(c, t)
      [] t.pc = "getCurrentImage" -> loadCurrentImage_info(c, t)
      [] t.pc = "getImageBase64" -> loadCurrentImage_then(c, t)
      [] t.pc = "getProgress" -> updateProgress_then(c, t)
      [] t.pc = "createAnnotation" -> handleAnnotation_then(c, t)
      [] t.pc = "skipImage" -> handleSkip_then(c, t)
      [] t.pc = "deleteImage" -> handleDelete_then(c, t)
      [] t.pc = "undo" -> handleUndo_then(c, t)
      [] t.pc \in {"navigateNext", "navigatePrev"} -> loadCurrentImage(c, t)

\* the continuation of a suspended handler when its awaited call rejects
Reject(c, t) ==
    CASE t.pc = "getTypes" -> refreshDatasets_catch(c, t)
      [] t.pc \in {"getCurrentImage", "getImageBase64"} -> loadCurrentImage_catch(c, t)
      [] t.pc = "getProgress" -> updateProgress_catch(c, t)
      [] t.pc = "createAnnotation" -> handleAnnotation_catch(c, t)
      [] t.pc = "skipImage" -> handleSkip_catch(c, t)
      [] t.pc = "deleteImage" -> handleDelete_catch(c, t)
      [] t.pc = "undo" -> handleUndo_catch(c, t)
      [] t.pc \in {"navigateNext", "navigatePrev"} ->
            CASE t.op = "handleAnnotation" -> handleAnnotation_catch(c, t)
              [] t.op = "handleSkip" -> handleSkip_catch(c, t)
              [] OTHER -> handleNavigate_catch(c, t)

\* ---------------------------------------------------------------- state
VARIABLES
    store,      \* Store.state
    images,     \* server: the ordered image listing of each dataset
    cursor,     \* server: the navigation cursor of each dataset (0-based)
    status,     \* server: the annotation status of each image
    tasks,      \* the suspended handler invocations, oldest first
    undoStack,  \* server: the annotate/skip actions that can be undone, oldest first
    undone,     \* server: the action the last applied undo reverted
    nOps,       \* operator actions so far
    budget,     \* operator actions this run allows
    lanes,      \* handler invocations this run allows to be suspended together
    ev,         \* the step just taken
    notes,      \* the states the subscriber was called with in that step
    toasts,     \* the toasts shown in that step
    fresh,      \* the most recently issued image load, and whether it was stored
    dom,        \* what ui.js has written to the page
    input,      \* the operator input just dispatched by bindEvents' listeners
    listeners,  \* Store.listeners: the registered listeners in insertion order
    closures,   \* the listeners whose unsubscribe function has been handed out
    calls,      \* the listener calls of a store operation taken alone
    held        \* the object a caller got from getState and still holds

Registry == <<listeners, closures, calls, held>>

vars == <<store, images, cursor, status, undoStack, undone, tasks, nOps, budget, lanes,
          ev, notes, toasts, fresh, dom, input, listeners, closures, calls, held>>

\* ---------------------------------------------------------------- server
Count(d, st) == Cardinality({i \in 1..Len(images[d]) : status[images[d][i]] = st})

Clamp(c, n) == IF c >= n THEN (IF n = 0 THEN 0 ELSE n - 1) ELSE c

Server(imgs, cur, stat) ==
    [images |-> imgs, cursor |-> cur, status |-> stat, undoStack |-> undoStack, undone |-> undone]

\* the service remembers what an annotate/skip action on path p replaced
Logged(srv, p) == [srv EXCEPT !.undoStack = Append(undoStack, [path |-> p, before |-> status])]

NoAction == [path |-> null, before |-> <<>>]

Reply(result, srv) == [ok |-> TRUE, result |-> result, srv |-> srv]

\* the body of a refusal
NotFound == [detail |-> "not found"]

Refuse(srv) == [ok |-> FALSE, result |-> NotFound, srv |-> srv]

\* what the service does with the request task t is suspended on
Serve(t) ==
    LET srv == Server(images, cursor, status)
        d == t.rds
    IN  CASE t.pc = "getTypes" -> Reply([types |-> TypeList], srv)
          [] t.pc = "getCurrentImage" ->
                IF Len(images[d]) = 0 THEN Refuse(srv)
                ELSE LET p == images[d][cursor[d] + 1]
                     IN  Reply([path |-> p, index |-> cursor[d], status |-> status[p]], srv)
          [] t.pc = "getImageBase64" ->
                IF t.info.index + 1 \in 1..Len(images[d])
                THEN Reply([base64 |-> images[d][t.info.index + 1]], srv)
                ELSE Refuse(srv)
          [] t.pc = "getProgress" ->
                Reply([total_images |-> Len(images[d]),
                       watermarked_count |-> Count(d, "watermarked"),
                       non_watermarked_count |-> Count(d, "no_watermark")], srv)
          [] t.pc = "navigateNext" ->
                IF cursor[d] + 1 < Len(images[d])
                THEN Reply([success |-> TRUE, index |-> cursor[d] + 1],
                           Server(images, [cursor EXCEPT ![d] = @ + 1], status))
                ELSE Reply([success |-> FALSE, index |-> cursor[d]], srv)
          [] t.pc = "navigatePrev" ->
                IF cursor[d] > 0
                THEN Reply([success |-> TRUE, index |-> cursor[d] - 1],
                           Server(images, [cursor EXCEPT ![d] = @ - 1], status))
                ELSE Reply([success |-> FALSE, index |-> cursor[d]], srv)
          [] t.pc = "createAnnotation" ->
                IF t.path \in SeqToSet(images[d])
                THEN Reply([success |-> TRUE],
                           Logged(Server(images, cursor,
                                         [status EXCEPT ![t.path] = StatusOf(t.label)]), t.path))
                ELSE Refuse(srv)
          [] t.pc = "skipImage" ->
                IF t.path \in SeqToSet(images[d])
                THEN Reply([success |-> TRUE],
                           Logged(Server(images, cursor, [status EXCEPT ![t.path] = "skipped"]),
                                  t.path))
                ELSE Refuse(srv)
          [] t.pc = "deleteImage" ->
                IF t.path \in SeqToSet(images[d])
                THEN LET left == RemoveAt(images[d], IndexOf(images[d], t.path))
                     IN  Reply([success |-> TRUE],
                               Server([images EXCEPT ![d] = left],
                                      [cursor EXCEPT ![d] = Clamp(@, Len(left))], status))
                ELSE Refuse(srv)
          [] t.pc = "undo" ->
                IF undoStack = <<>>
                THEN Reply([success |-> FALSE, message |-> "nothing to undo"], srv)
                ELSE LET top == undoStack[Len(undoStack)]
                         back == Server(images, cursor,
                                        [status EXCEPT ![top.path] = top.before[top.path]])
                     IN  Reply([success |-> TRUE, message |-> "undone"],
                               [back EXCEPT !.undoStack = SubSeq(undoStack, 1, Len(undoStack) - 1),
                                            !.undone = top])

\* ---------------------------------------------------------------- steps
ImageFetches == {"getCurrentImage", "getImageBase64"}

Issued(old, new) ==
    IF new.rstatus = "sent" /\ (old.rstatus # "sent" \/ old.pc # new.pc) THEN new.pc ELSE "none"

\* what the step found in the store before it ran
Pre(state) ==
    [currentDataset |-> state.currentDataset, path |-> state.image.path,
     isLoading |-> state.isLoading]

\* the response being delivered is a navigate reply saying there is no further image
Boundary(old) ==
    /\ old.pc \in {"navigateNext", "navigatePrev"}
    /\ old.rstatus = "ok"
    /\ ~old.result.success

\* old is the task as the step resumed it, new as the step left it
Event(kind, op, arg, old, new) ==
    [kind |-> kind, op |-> op, arg |-> arg, id |-> new.id, issued |-> Issued(old, new),
     pc |-> old.pc, boundary |-> Boundary(old), pre |-> Pre(store),
     was |-> store, res |-> old.result, err |-> old.err]

\* bookkeeping of the most recently issued load
Track(old, new) ==
    fresh' = IF Issued(old, new) = "getCurrentImage" THEN [id |-> new.id, stored |-> FALSE]
             ELSE IF old.pc = "getImageBase64" /\ old.rstatus = "ok" /\ old.id = fresh.id
                  THEN [fresh EXCEPT !.stored = TRUE]
                  ELSE fresh

\* the handler ran from a suspension point (or its start) to the next one
Commit(i, out) ==
    /\ store' = out.ctx.state
    /\ notes' = out.ctx.notes
    /\ dom' = RenderAll(dom, out.ctx.notes)
    /\ toasts' = out.ctx.toasts
    /\ tasks' = IF out.task.pc = "done" THEN RemoveAt(tasks, i)
                ELSE [tasks EXCEPT ![i] = out.task]

Invoke(op, arg, out) ==
    /\ store' = out.ctx.state
    /\ notes' = out.ctx.notes
    /\ dom' = RenderAll(dom, out.ctx.notes)
    /\ toasts' = out.ctx.toasts
    /\ tasks' = IF out.task.pc = "done" THEN tasks ELSE Append(tasks, out.task)
    /\ nOps' = nOps + 1
    /\ ev' = Event("invoke", op, arg, NewTask(nOps + 1, op), out.task)
    /\ Track(NewTask(nOps + 1, op), out.task)
    /\ UNCHANGED <<images, cursor, status, undoStack, undone, budget, lanes, input, Registry>>

CanInvoke == nOps < budget /\ Len(tasks) < lanes

Listed(name) == \E i \in 1..Len(store.datasets) : store.datasets[i].name = name

\* a click on a dataset of the rendered list
SelectDataset(name) ==
    /\ CanInvoke
    /\ Listed(name)
    /\ Invoke("selectDataset", name, selectDataset(Ctx(store), NewTask(nOps + 1, "selectDataset"), name))

HandleAnnotation(label) ==
    /\ CanInvoke
    /\ Invoke("handleAnnotation", label,
              handleAnnotation(Ctx(store), NewTask(nOps + 1, "handleAnnotation"), label))

HandleSkip ==
    /\ CanInvoke
    /\ Invoke("handleSkip", null, handleSkip(Ctx(store), NewTask(nOps + 1, "handleSkip")))

HandleDelete(confirmed) ==
    /\ CanInvoke
    /\ Invoke("handleDelete", confirmed,
              handleDelete(Ctx(store), NewTask(nOps + 1, "handleDelete"), confirmed))

HandleNavigate(direction) ==
    /\ CanInvoke
    /\ Invoke("handleNavigate", direction,
              handleNavigate(Ctx(store), NewTask(nOps + 1, "handleNavigate"), direction))

HandleUndo ==
    /\ CanInvoke
    /\ Invoke("handleUndo", null, handleUndo(Ctx(store), NewTask(nOps + 1, "handleUndo")))

\* the service handles a request
ServerStep(i) ==
    /\ tasks[i].rstatus = "sent"
    /\ LET r == Serve(tasks[i])
       IN  /\ images' = r.srv.images
           /\ cursor' = r.srv.cursor
           /\ status' = r.srv.status
           /\ undoStack' = r.srv.undoStack
           /\ undone' = r.srv.undone
           /\ tasks' = [tasks EXCEPT ![i].rstatus = IF r.ok THEN "ok" ELSE "err",
                                     ![i].result = r.result]
    /\ ev' = [kind |-> "server", op |-> tasks[i].op, arg |-> null, id |-> tasks[i].id,
              issued |-> "none", pc |-> tasks[i].pc, boundary |-> FALSE, pre |-> Pre(store),
              was |-> store, res |-> NoResult, err |-> null]
    /\ notes' = <<>>
    /\ toasts' = <<>>
    /\ UNCHANGED <<store, nOps, budget, lanes, fresh, dom, input, Registry>>

\* a response arrives and the handler continues
Response(i) ==
    /\ tasks[i].rstatus \in {"ok", "err"}
    /\ LET t == IF tasks[i].rstatus = "ok" THEN tasks[i]
                ELSE [tasks[i] EXCEPT !.err = RequestError(tasks[i].result)]
           out == IF t.rstatus = "ok" THEN Resolve(Ctx(store), t) ELSE Reject(Ctx(store), t)
       IN  /\ Commit(i, out)
           /\ ev' = Event(IF t.rstatus = "ok" THEN "resolve" ELSE "reject", t.op, null, t, out.task)
           /\ Track(t, out.task)
    /\ UNCHANGED <<images, cursor, status, undoStack, undone, nOps, budget, lanes, input, Registry>>

\* the request or its response fails in transport (fetch rejects, or the
\* body does not parse): the handler continues in its catch
Failure(i) ==
    /\ tasks[i].rstatus \in {"sent", "ok"}
    /\ LET t == [tasks[i] EXCEPT !.err = FetchError]
           out == Reject(Ctx(store), t)
       IN  /\ Commit(i, out)
           /\ ev' = Event("reject", t.op, null, t, out.task)
           /\ Track(t, out.task)
    /\ UNCHANGED <<images, cursor, status, undoStack, undone, nOps, budget, lanes, input, Registry>>

\* nothing read from getState is held
NoSnapshot == [taken |-> FALSE, current |-> FALSE, intact |-> TRUE]

InitEvent ==
    [kind |-> "init", op |-> "init", arg |-> null, id |-> 0, issued |-> "getTypes",
     pc |-> "start", boundary |-> FALSE, pre |-> Pre(InitState),
     was |-> InitState, res |-> NoResult, err |-> null]

\* the page is loaded: init has called bindEvents and awaits refreshDatasets
BootWith(ops, together, listing) ==
    /\ budget = ops
    /\ lanes = together
    /\ undoStack = <<>>
    /\ undone = NoAction
    /\ store = InitState
    /\ images = listing
    /\ cursor = [d \in Datasets |-> 0]
    /\ status = [p \in UNION {SeqToSet(listing[d]) : d \in Datasets} |-> "pending"]
    /\ tasks = << refreshDatasets(Ctx(InitState), NewTask(0, "init")).task >>
    /\ nOps = 0
    /\ notes = <<>>
    /\ toasts = <<>>
    /\ fresh = [id |-> 0, stored |-> FALSE]
    /\ dom = InitDom
    /\ input = NoInput
    /\ listeners = << "render" >>
    /\ closures = {}
    /\ calls = <<>>
    /\ held = NoSnapshot

Boot(ops, together) == BootWith(ops, together, InitImages)

Start(ops, together) == Boot(ops, together) /\ ev = InitEvent

Init == Start(MaxOps, MaxTasks)

ShortInit == Start(ShortOps, MaxTasks)

\* one handler at a time: the operator waits for each action to finish
SoloInit == Start(SoloOps, 1)

Next ==
    \/ \E name \in Datasets : SelectDataset(name)
    \/ \E label \in Labels : HandleAnnotation(label)
    \/ HandleSkip
    \/ \E confirmed \in BOOLEAN : HandleDelete(confirmed)
    \/ \E direction \in {"next", "prev"} : HandleNavigate(direction)
    \/ HandleUndo
    \/ \E i \in 1..Len(tasks) : ServerStep(i)
    \/ \E i \in 1..Len(tasks) : Response(i)
    \/ \E i \in 1..Len(tasks) : Failure(i)

Spec == Init /\ [][Next]_vars

ShortSpec == ShortInit /\ [][Next]_vars

SoloSpec == SoloInit /\ [][Next]_vars

\* ---------------------------------------------------------------- repeated actions
\* Annotations and skips on a dataset of three images, so that the cursor has
\* room to advance twice; the operator selects, annotates and skips only.
LongListing == [A |-> <<"a1", "a2", "a3">>, B |-> <<"b1">>]

DoubleInit == BootWith(MaxOps, MaxTasks, LongListing) /\ ev = InitEvent

DoubleNext ==
    \/ \E name \in Datasets : SelectDataset(name)
    \/ \E label \in Labels : HandleAnnotation(label)
    \/ HandleSkip
    \/ \E i \in 1..Len(tasks) : ServerStep(i)
    \/ \E i \in 1..Len(tasks) : Response(i)
    \/ \E i \in 1..Len(tasks) : Failure(i)

DoubleSpec == DoubleInit /\ [][DoubleNext]_vars

\* ---------------------------------------------------------------- dispatch
\* The listeners of bindEvents taken alone: which handler an input calls.
Dispatched == <<store, images, cursor, status, undoStack, undone, tasks, nOps, budget, lanes,
                ev, notes, toasts, fresh, dom, Registry>>

KeyDown(e) ==
    /\ input' = [kind |-> "keydown", control |-> e.key, ctrlKey |-> e.ctrlKey,
                 metaKey |-> e.metaKey, tagName |-> e.tagName, call |-> keydown(e)]
    /\ UNCHANGED Dispatched

Click(id) ==
    /\ input' = [kind |-> "click", control |-> id, ctrlKey |-> FALSE, metaKey |-> FALSE,
                 tagName |-> "BUTTON", call |-> onclick(id)]
    /\ UNCHANGED Dispatched

InputInit == Start(0, 0)

InputNext ==
    \/ \E e \in KeyEvents : KeyDown(e)
    \/ \E id \in Buttons : Click(id)

InputSpec == InputInit /\ [][InputNext]_vars

\* ---------------------------------------------------------------- rendering
\* ui.updateStats taken alone, on every stats record up to MaxCount.
StatsRecords ==
    [watermarked : 0..MaxCount, noWatermarked : 0..MaxCount,
     targetWatermarked : 0..MaxCount, targetNoWatermarked : 0..MaxCount]

\* ui.updateStats is called with the stats record chosen at the start
UpdateStats ==
    /\ ev.kind = "pending"
    /\ dom' = ui_updateStats(dom, ev.arg)
    /\ ev' = [ev EXCEPT !.kind = "render"]
    /\ UNCHANGED <<store, images, cursor, status, undoStack, undone, tasks, nOps, budget,
                   lanes, notes, toasts, fresh, input, Registry>>

RenderInit ==
    /\ Boot(0, 0)
    /\ ev \in {[InitEvent EXCEPT !.kind = "pending", !.op = "updateStats", !.arg = stats] :
                  stats \in StatsRecords}

RenderNext == UpdateStats

RenderSpec == RenderInit /\ [][RenderNext]_vars

\* ---------------------------------------------------------------- store alone
\* The Store class taken alone: its methods called in any order by a client
\* that registers and removes listeners and keeps what getState returned.
Listeners == {"render", "second"}

\* Set.add: a listener already registered keeps its place
subscribe(ls, listener) == IF listener \in SeqToSet(ls) THEN ls ELSE Append(ls, listener)

\* variant: the returned function removes nothing
unsubscribe_keep(ls, listener) == ls

\* the function subscribe returned: Set.delete
unsubscribe(ls, listener) == SelectSeq(ls, LAMBDA l : l # listener)

\* listeners.forEach(listener => listener(this.state)), for each notification
RECURSIVE Deliver(_, _)
Deliver(ls, states) ==
    IF states = <<>> THEN <<>>
    ELSE [i \in 1..Len(ls) |-> [listener |-> ls[i], state |-> Head(states)]]
         \o Deliver(ls, Tail(states))

ImagePartials == {[data |-> "pixels", path |-> "a1"], [status |-> "watermarked"]}

StatsPartials == {[watermarked |-> 1]}

StatePartials == {[datasets |-> TypeList]}

StoreEvent(kind, op, arg) == [InitEvent EXCEPT !.kind = kind, !.op = op, !.arg = arg,
                                               !.issued = "none", !.was = store]

StoreFrame == <<images, cursor, status, undoStack, undone, tasks, nOps, budget, lanes,
                toasts, fresh, input>>

Subscribe(listener) ==
    /\ listeners' = subscribe(listeners, listener)
    /\ closures' = closures \cup {listener}
    /\ calls' = <<>>
    /\ notes' = <<>>
    /\ ev' = StoreEvent("subscribe", "subscribe", listener)
    /\ UNCHANGED <<store, dom, held, StoreFrame>>

Unsubscribe(listener) ==
    /\ listener \in closures
    /\ listeners' = unsubscribe(listeners, listener)
    /\ calls' = <<>>
    /\ notes' = <<>>
    /\ ev' = StoreEvent("unsubscribe", "unsubscribe", listener)
    /\ UNCHANGED <<store, dom, closures, held, StoreFrame>>

\* getState returns this.state itself
GetState ==
    /\ held' = [taken |-> TRUE, current |-> TRUE, intact |-> TRUE]
    /\ calls' = <<>>
    /\ notes' = <<>>
    /\ ev' = StoreEvent("get", "getState", null)
    /\ UNCHANGED <<store, dom, listeners, closures, StoreFrame>>

\* one call of an updating method
Update(op, arg, out) ==
    /\ store' = out.state
    /\ notes' = out.notes
    /\ calls' = Deliver(listeners, out.notes)
    /\ dom' = IF "render" \in SeqToSet(listeners) THEN RenderAll(dom, out.notes) ELSE dom
    /\ held' = IF ~held.current THEN held
               ELSE IF out.replaced THEN [held EXCEPT !.current = FALSE]
               ELSE [held EXCEPT !.intact = @ /\ out.state = store]
    /\ ev' = StoreEvent("update", op, arg)
    /\ UNCHANGED <<listeners, closures, StoreFrame>>

StoreInit == Start(0, 0)

StoreNext ==
    \/ \E listener \in Listeners : Subscribe(listener)
    \/ \E listener \in Listeners : Unsubscribe(listener)
    \/ GetState
    \/ \E newState \in StatePartials : Update("setState", newState, setState(Ctx(store), newState))
    \/ \E name \in Datasets : Update("updateDataset", name, updateDataset(Ctx(store), name))
    \/ \E info \in ImagePartials : Update("updateImage", info, updateImage(Ctx(store), info))
    \/ \E stats \in StatsPartials : Update("updateStats", stats, updateStats(Ctx(store), stats))
    \/ \E loading \in BOOLEAN : Update("setLoading", loading, setLoading(Ctx(store), loading))

StoreSpec == StoreInit /\ [][StoreNext]_vars

\* ---------------------------------------------------------------- claims
HasToast(type) == \E i \in 1..Len(toasts) : toasts[i].type = type

InFlightFetches == {i \in 1..Len(tasks) : tasks[i].pc \in ImageFetches}

Idle == tasks = <<>>

Invoked(op) == ev.kind = "invoke" /\ ev.op = op

\* C1: while isLoading is true, a navigation issues no request and leaves
\* isLoading alone, so at most one image fetch is in flight at any time.
C1_LoadingGuard ==
    /\ Cardinality(InFlightFetches) <= 1
    /\ (Invoked("handleNavigate") /\ ev.pre.isLoading)
          => (ev.issued = "none" /\ store.isLoading = ev.pre.isLoading)

\* C2: the current image's path, when present, belongs to the current dataset.
C2_PathInCurrentDataset ==
    store.image.path # null =>
        (store.currentDataset # null /\ DatasetOf(store.image.path) = store.currentDataset)

\* C3: selectDataset(name) with another name sets currentDataset and clears
\* the image in one step (no subscriber sees the new name with the previous
\* dataset's image), then runs loadCurrent().
C3_SwitchClearsImage ==
    (Invoked("selectDataset") /\ ev.arg # ev.pre.currentDataset) =>
        /\ store.currentDataset = ev.arg
        /\ \A i \in 1..Len(notes) :
              notes[i].currentDataset = ev.arg =>
                  (notes[i].image.path = null /\ notes[i].image.data = null)
        /\ ev.issued = "getCurrentImage"

\* C4: the response of a load issued before the most recent one, arriving
\* after the most recent one was stored, does not overwrite what it stored.
StaleResponse ==
    /\ ev.kind = "resolve"
    /\ ev.pc = "getImageBase64"
    /\ ev.id # fresh.id
    /\ fresh.stored

C4_FreshestWins == StaleResponse => store.image.path = ev.pre.path

\* C5: isLoading is false whenever no handler is in progress.
C5_IdleNotLoading == Idle => ~store.isLoading

\* a load has just failed and nothing is left in progress
C5_Witness ==
    /\ Idle
    /\ ev.kind = "reject"
    /\ ev.pc \in ImageFetches
    /\ ev.pre.isLoading

\* the handler of the step just taken is the only one that was in progress
Alone == \A i \in 1..Len(tasks) : tasks[i].id = ev.id

\* C6: a load that fails while a valid image is held leaves the image record
\* as it was and surfaces an error (stated for a load that runs alone, so
\* that no other handler's response is involved).
LoadFailedWithImage ==
    /\ ev.kind = "reject"
    /\ ev.pc \in ImageFetches
    /\ ev.pre.path # null
    /\ DatasetOf(ev.pre.path) = ev.pre.currentDataset
    /\ Alone

C6_FailedLoadKeepsImage ==
    LoadFailedWithImage => (store.image.path = ev.pre.path /\ HasToast("error"))

\* C7: the held image record is whole: the pixel payload is that of the
\* image named by path.
C7_RecordWhole ==
    /\ store.image.path # null => store.image.data = store.image.path
    /\ store.image.data # null => store.image.path # null

\* C8: next()/prev() at the boundary leaves the image unchanged, issues no
\* image fetch and reports an informational boundary condition.
AtBoundary == ev.op = "handleNavigate" /\ ev.kind = "resolve" /\ ev.boundary

C8_BoundaryLeavesImage ==
    AtBoundary =>
        /\ ev.issued = "none"
        /\ store.image.path = ev.pre.path
        /\ HasToast("info")
        /\ ~HasToast("error")

\* C9: selectDataset(A) while currentDataset is A issues no request, changes
\* nothing of the session state and notifies no subscriber.
C9_ReselectIsNoOp ==
    [][(ev'.kind = "invoke" /\ ev'.op = "selectDataset" /\ ev'.arg = store.currentDataset)
          => /\ store' = store
             /\ tasks' = tasks
             /\ notes' = <<>>
             /\ ev'.issued = "none"
             /\ UNCHANGED <<images, cursor, status>>]_vars

\* the selected dataset has just been selected again
C9_Witness ==
    /\ Invoked("selectDataset")
    /\ ev.arg = ev.pre.currentDataset

\* C10: annotate, skip and delete with no dataset or no image report
\* "nothing selected" and issue no request.
NothingSelected == ev.pre.currentDataset = null \/ ev.pre.path = null

C10_NothingSelectedReported ==
    (ev.kind = "invoke" /\ ev.op \in {"handleAnnotation", "handleSkip", "handleDelete"}
        /\ NothingSelected)
    => (ev.issued = "none" /\ HasToast("warning") /\ notes = <<>>)

\* C11: inside handleAnnotation and handleSkip the follow-up navigation is
\* issued only by the step that receives the successful response of the
\* write, and handleAnnotation's progress refresh only by the step in which
\* its reload finishes; an invocation never has two requests in flight.
Writes == {"createAnnotation", "skipImage"}

C11_FollowUpsInOrder ==
    /\ (ev.op \in {"handleAnnotation", "handleSkip"} /\ ev.issued = "navigateNext")
          => (ev.kind = "resolve" /\ ev.pc \in Writes)
    /\ (ev.op \in {"handleAnnotation", "handleSkip"} /\ ev.issued = "getCurrentImage")
          => (ev.kind = "resolve" /\ ev.pc = "navigateNext")
    /\ (ev.op = "handleAnnotation" /\ ev.issued = "getProgress")
          => (ev.kind \in {"resolve", "reject"} /\ ev.pc \in ImageFetches)
    /\ \A i, j \in 1..Len(tasks) : tasks[i].id = tasks[j].id => i = j

\* handleAnnotation has reached its progress refresh
C11_Witness == ev.op = "handleAnnotation" /\ ev.issued = "getProgress"

\* C12: when the createAnnotation, skipImage or deleteImage request is
\* refused by the service or fails in transport, the handler issues no
\* further request, shows the message of the error it caught, and leaves the
\* store as it was.
WriteFailed == ev.kind = "reject" /\ ev.pc \in Writes \cup {"deleteImage"}

C12_FailedWriteStopsThere ==
    WriteFailed =>
        /\ ev.issued = "none"
        /\ \A i \in 1..Len(tasks) : tasks[i].id # ev.id
        /\ store = ev.was
        /\ notes = <<>>
        /\ \E i \in 1..Len(toasts) :
              toasts[i].type = "error" /\ toasts[i].message[2] = ev.err

\* the annotation request has just failed
C12_Witness == WriteFailed /\ ev.pc = "createAnnotation" /\ ev.err # null

\* C13: the status shown for the current image changes only when a reload
\* stores the service's snapshot: not when handleAnnotation or handleSkip is
\* invoked, not when the write's response arrives and not when it fails.
StatusChanged == store.image.status # ev.was.image.status

C13_StatusOnlyFromServer ==
    /\ StatusChanged => (ev.kind = "resolve" /\ ev.pc = "getImageBase64")
    /\ (ev.op \in {"handleAnnotation", "handleSkip"}
          /\ (ev.kind = "invoke" \/ ev.pc \in Writes \/ ev.pc = "navigateNext"))
          => ~StatusChanged

\* the reload after an annotation shows the annotated image with its new status
C13_Witness ==
    /\ StatusChanged
    /\ ev.op = "handleAnnotation"
    /\ store.image.status = status[store.image.path]
    /\ store.image.status # "pending"

\* C14: when handleUndo has finished after an undo the service applied, the
\* status shown for the image on display is the one that image had
\* immediately before the undone action; it is stored by the reload, from
\* the service's snapshot.
UndoReloaded == ev.op = "handleUndo" /\ ev.kind = "resolve" /\ ev.pc = "getImageBase64"

UndoFinished == ev.op = "handleUndo" /\ ev.pc = "getProgress" /\ ev.kind \in {"resolve", "reject"}

UndoAnswered == ev.kind = "resolve" /\ ev.pc = "undo"

C15_UndoOutcome ==
    /\ (UndoAnswered /\ ~ev.res.success) =>
          /\ ev.issued = "none"
          /\ \A i \in 1..Len(tasks) : tasks[i].id # ev.id
          /\ store = ev.was
          /\ notes = <<>>
          /\ toasts = << [message |-> ev.res.message, type |-> "warning"] >>
    /\ (UndoAnswered /\ ev.res.success) => ev.issued = "getCurrentImage"
    /\ (ev.op = "handleUndo" /\ ev.issued = "getCurrentImage")
          => (UndoAnswered /\ ev.res.success)
    /\ (ev.op = "handleUndo" /\ ev.issued = "getProgress")
          => (ev.kind \in {"resolve", "reject"} /\ ev.pc \in ImageFetches)

\* an applied undo has reloaded the image and asks for the progress
C15_Witness == ev.op = "handleUndo" /\ ev.issued = "getProgress"

\* C16: redo is a controller operation the operator can reach: the redo
\* shortcut of the shortcut table (Ctrl/Cmd+Y outside a text field) calls a
\* redo handler, which then follows handleUndo's contract.
RedoShortcut ==
    /\ input.kind = "keydown"
    /\ toLowerCase(input.control) = "y"
    /\ input.ctrlKey \/ input.metaKey
    /\ input.tagName \notin {"INPUT", "TEXTAREA"}

C16_RedoAvailable == RedoShortcut => input.call.fn = "handleRedo"

\* C17: the watermarked and non-watermarked counts on display change only
\* when a progress response is stored, and to its values; when
\* handleAnnotation has finished they are the counts of the progress
\* response it received, which are the service's counts for the current
\* dataset.
CountsChanged ==
    \/ store.stats.watermarked # ev.was.stats.watermarked
    \/ store.stats.noWatermarked # ev.was.stats.noWatermarked

ProgressStored == ev.kind = "resolve" /\ ev.pc = "getProgress"

C17_CountsFromProgress ==
    /\ CountsChanged => ProgressStored
    /\ ProgressStored =>
          /\ store.stats.watermarked = ev.res.watermarked_count
          /\ store.stats.noWatermarked = ev.res.non_watermarked_count
    /\ (ProgressStored /\ ev.op = "handleAnnotation") =>
          /\ store.stats.watermarked = Count(store.currentDataset, "watermarked")
          /\ store.stats.noWatermarked = Count(store.currentDataset, "no_watermark")

\* handleAnnotation has finished and the counts on display moved
C17_Witness == ProgressStored /\ ev.op = "handleAnnotation" /\ CountsChanged

\* C18: for each counter the 'complete' mark is set exactly when the target
\* is positive and the count has reached it, so a target of 0 is never
\* complete; the text shown is count/target.  With counts 10 and 3 against
\* targets 10 and 10 the watermarked stat reads 10/10 and is complete, the
\* non-watermarked stat reads 3/10 and is not.
Rendered == ev.kind = "render" /\ ev.op = "updateStats"

TenAndThree ==
    [watermarked |-> 10, noWatermarked |-> 3, targetWatermarked |-> 10,
     targetNoWatermarked |-> 10]

C18_CompleteExactly ==
    Rendered =>
        LET stats == ev.arg
        IN  /\ dom.statPillWm
                  <=> (stats.targetWatermarked > 0
                          /\ stats.watermarked >= stats.targetWatermarked)
            /\ dom.statPillNwm
                  <=> (stats.targetNoWatermarked > 0
                          /\ stats.noWatermarked >= stats.targetNoWatermarked)
            /\ stats.targetWatermarked = 0 => ~dom.statPillWm
            /\ stats.targetNoWatermarked = 0 => ~dom.statPillNwm
            /\ dom.statWm = <<stats.watermarked, "/", stats.targetWatermarked>>
            /\ dom.statNwm = <<stats.noWatermarked, "/", stats.targetNoWatermarked>>
            /\ stats = TenAndThree =>
                  /\ dom.statWm = <<10, "/", 10>> /\ dom.statPillWm
                  /\ dom.statNwm = <<3, "/", 10>> /\ ~dom.statPillNwm

\* the stats of the example have been rendered
C18_Witness == Rendered /\ ev.arg = TenAndThree

\* C19: handleDelete sends the delete request only when the operator has
\* confirmed; when the operator declines it sends nothing and changes
\* nothing; after the service has deleted the image it reloads the current
\* position and, once the reload has finished, refreshes progress.
C19_DeleteAfterConfirm ==
    /\ ev.issued = "deleteImage" => (Invoked("handleDelete") /\ ev.arg)
    /\ (Invoked("handleDelete") /\ ~ev.arg) =>
          /\ ev.issued = "none"
          /\ \A i \in 1..Len(tasks) : tasks[i].id # ev.id
          /\ store = ev.was
          /\ notes = <<>>
          /\ toasts = <<>>
    /\ (ev.kind = "resolve" /\ ev.pc = "deleteImage") => ev.issued = "getCurrentImage"
    /\ (ev.op = "handleDelete" /\ ev.issued = "getCurrentImage")
          => (ev.kind = "resolve" /\ ev.pc = "deleteImage")
    /\ (ev.op = "handleDelete" /\ ev.issued = "getProgress")
          => (ev.kind \in {"resolve", "reject"} /\ ev.pc \in ImageFetches)

\* a confirmed delete has reloaded the current position and asks for the progress
C19_Witness == ev.op = "handleDelete" /\ ev.issued = "getProgress"

\* C20: when handleDelete has deleted the last image of the dataset and its
\* reload and progress refresh have been answered, the session shows no
\* image: no data, no path, total 0, counter 0 of 0, the placeholder in
\* place of the image, isLoading false, and no error toast on the way.
LastDeleted ==
    /\ ev.op = "handleDelete"
    /\ ev.kind = "resolve"
    /\ ev.pc = "getProgress"
    /\ ev.res.total_images = 0

C20_EmptyAfterLastDelete ==
    /\ LastDeleted =>
          /\ \A i \in 1..Len(tasks) : tasks[i].id # ev.id
          /\ store.image.data = null
          /\ store.image.path = null
          /\ store.image.total = 0
          /\ ~store.isLoading
          /\ dom.counterCurrent = 0
          /\ dom.counterTotal = 0
          /\ dom.currentImageName = "-"
          /\ dom.mainImageHidden
          /\ ~dom.emptyStateHidden
    /\ (ev.op = "handleDelete" /\ ev.kind \in {"resolve", "reject"} /\ ev.pc # "deleteImage")
          => ~HasToast("error")

\* the only image of the dataset has been deleted and the view is empty
C20_Witness == LastDeleted /\ images[store.currentDataset] = <<>>

\* C21: handleSkip sends skipImage for the image and dataset the store
\* holds, sends navigateNext for that dataset once the skip has succeeded,
\* and never sends createAnnotation: the service records "skipped", no label.
Running == {i \in 1..Len(tasks) : tasks[i].id = ev.id}

C21_SkipRecordsNoLabel ==
    /\ (Invoked("handleSkip") /\ ~NothingSelected) =>
          /\ ev.issued = "skipImage"
          /\ \A i \in Running :
                /\ tasks[i].path = ev.was.image.path
                /\ tasks[i].rds = ev.was.currentDataset
    /\ \A i \in 1..Len(tasks) : tasks[i].op = "handleSkip" => tasks[i].pc # "createAnnotation"
    /\ (ev.op = "handleSkip" /\ ev.kind = "resolve" /\ ev.pc = "skipImage") =>
          /\ ev.issued = "navigateNext"
          /\ \A i \in Running : tasks[i].rds = tasks[i].ds
    /\ (ev.op = "handleSkip" /\ ev.kind = "server" /\ ev.pc = "skipImage") =>
          \A i \in Running : tasks[i].rstatus = "ok" => status[tasks[i].path] = "skipped"

\* a skip has succeeded and the implicit next is on its way
C21_Witness ==
    /\ ev.op = "handleSkip"
    /\ ev.kind = "resolve"
    /\ ev.pc = "skipImage"
    /\ \E i \in Running : status[tasks[i].path] = "skipped"

\* C22: while currentDataset is unset, handleNavigate (next and prev),
\* loadCurrentImage and updateProgress send no request, leave the store as it
\* is (isLoading included) and notify no subscriber.
Unset == store.currentDataset = null

Untouched(out) == out.task.rstatus = "none" /\ out.ctx = Ctx(store)

C22_UnsetDatasetNoOp ==
    /\ (Invoked("handleNavigate") /\ ev.was.currentDataset = null) =>
          /\ ev.issued = "none"
          /\ Running = {}
          /\ store = ev.was
          /\ notes = <<>>
    /\ Unset =>
          /\ Untouched(handleNavigate(Ctx(store), NewTask(0, "handleNavigate"), "next"))
          /\ Untouched(handleNavigate(Ctx(store), NewTask(0, "handleNavigate"), "prev"))
          /\ Untouched(loadCurrentImage(Ctx(store), NewTask(0, "handleNavigate")))
          /\ Untouched(loadCurrentImage(Ctx(store), NewTask(0, "handleUndo")))
          /\ Untouched(updateProgress(Ctx(store), NewTask(0, "handleUndo")))

\* next or prev was pressed before any dataset was selected
C22_Witness == Invoked("handleNavigate") /\ ev.was.currentDataset = null /\ Unset

Updated(op) == ev.kind = "update" /\ ev.op = op

\* C23: every call of an updating method of the store calls every listener
\* registered at that moment, in the order of registration, exactly once,
\* with the state the update produced, within the call itself; an update that
\* changes nothing is notified like any other.
C23_NotifiesAll ==
    ev.kind = "update" =>
        /\ Len(notes) = 1
        /\ Len(calls) = Len(listeners)
        /\ \A i \in 1..Len(calls) :
              calls[i].listener = listeners[i] /\ calls[i].state = store

C23_Witness ==
    /\ ev.kind = "update"
    /\ store = ev.was
    /\ listeners = << "second", "render" >>
    /\ Len(calls) = 2

\* the fields of record new that partial does not name are those of old, the
\* named ones are the partial's
Merged(old, new, partial) ==
    /\ DOMAIN new = DOMAIN old
    /\ \A f \in DOMAIN new : new[f] = IF f \in DOMAIN partial THEN partial[f] ELSE old[f]

\* C24: a store update merges shallowly and replaces the state object:
\* updateImage and updateStats keep the fields of image and stats their
\* argument does not name and leave currentDataset, datasets and isLoading
\* alone, every other update changes only what it names, and the object a
\* caller obtained from getState before the update keeps its contents.
C24_ShallowMerge ==
    /\ Updated("updateImage") =>
          Merged(ev.was.image, store.image, ev.arg) /\ Merged(ev.was, store, [image |-> store.image])
    /\ Updated("updateStats") =>
          Merged(ev.was.stats, store.stats, ev.arg) /\ Merged(ev.was, store, [stats |-> store.stats])
    /\ Updated("setState") => Merged(ev.was, store, ev.arg)
    /\ Updated("updateDataset") => Merged(ev.was, store, [currentDataset |-> ev.arg])
    /\ Updated("setLoading") => Merged(ev.was, store, [isLoading |-> ev.arg])
    /\ held.intact

C24_Witness ==
    /\ Updated("updateImage")
    /\ "status" \in DOMAIN ev.arg
    /\ ev.was.image.data = "pixels"
    /\ store.image.data = "pixels"
    /\ store.image.status # ev.was.image.status
    /\ store.isLoading
    /\ held.taken
    /\ ~held.current

SelectFinished ==
    ev.op = "selectDataset" /\ ev.pc = "getProgress" /\ ev.kind \in {"resolve", "reject"}

\* the target the loaded dataset list holds for a dataset's counter, 0 when
\* the entry does not track it
ListedTarget(name, counter) ==
    LET found == FindDataset(store.datasets, name)
    IN  IF found = {} THEN 0
        ELSE LET dataset == store.datasets[CHOOSE i \in found : TRUE]
             IN  IF "target_count" \in DOMAIN dataset /\ counter \in DOMAIN dataset.target_count
                 THEN dataset.target_count[counter]
                 ELSE 0

\* C25: when selectDataset has completed, the displayed targets are those of
\* the selected dataset's entry in the loaded dataset list, 0 for a counter
\* the entry does not track, and the operation has issued no request other
\* than the image load and the progress request.
C25_TargetsOfSelected ==
    /\ ev.op = "selectDataset" =>
          ev.issued \in {"none", "getCurrentImage", "getImageBase64", "getProgress"}
    /\ (SelectFinished /\ store.currentDataset # null) =>
          /\ store.stats.targetWatermarked = ListedTarget(store.currentDataset, "watermarked")
          /\ store.stats.targetNoWatermarked = ListedTarget(store.currentDataset, "non_watermarked")

\* the place of each request in the order in which a handler can issue it
Rank(request) ==
    CASE request = "start" -> 0
      [] request \in {"createAnnotation", "skipImage", "deleteImage", "undo"} -> 1
      [] request \in {"navigateNext", "navigatePrev"} -> 2
      [] request = "getCurrentImage" -> 3
      [] request = "getImageBase64" -> 4
      [] request = "getProgress" -> 5
      [] OTHER -> 6

HandlerStep == ev.kind \in {"invoke", "resolve", "reject"}

IssuedOnce == (HandlerStep /\ ev.issued # "none") => Rank(ev.issued) > Rank(ev.pc)

\* C26: no operation is retried: within one invocation a handler only moves
\* forward through its requests, so it issues each kind at most once, and the
\* step that receives a failed request issues no request, which ends the
\* invocation.
C26_NoRetry ==
    /\ IssuedOnce
    /\ ev.kind = "reject" => ev.issued = "none"

\* C26 as amended: no operation is retried and each kind of request is
\* issued at most once per invocation; a failed request ends the invocation,
\* except that a failed image load (metadata or pixel fetch) is still
\* followed by the progress request of the operation that called the load.
C26_NoRetryExceptLoad ==
    /\ IssuedOnce
    /\ (ev.kind = "reject" /\ ev.pc \notin ImageFetches) => ev.issued = "none"
    /\ (ev.kind = "reject" /\ ev.pc \in ImageFetches) => ev.issued \in {"none", "getProgress"}

C26_Witness ==
    /\ ev.kind = "reject"
    /\ ev.op = "handleAnnotation"
    /\ ev.pc = "getImageBase64"
    /\ ev.issued = "getProgress"

\* a key pressed outside a text field, with or without Ctrl/Cmd
KeyPressed(keys, modified) ==
    /\ input.kind = "keydown"
    /\ input.tagName \notin {"INPUT", "TEXTAREA"}
    /\ toLowerCase(input.control) \in keys
    /\ (input.ctrlKey \/ input.metaKey) = modified

\* C27: the navigation keys of the shortcut table: A or ArrowLeft calls the
\* navigation to the previous image, D or ArrowRight the navigation to the
\* next image, and neither A nor D records an annotation.
C27_NavigationKeys ==
    /\ KeyPressed({"a", "arrowleft"}, FALSE) => input.call = Call("handleNavigate", "prev")
    /\ KeyPressed({"d", "arrowright"}, FALSE) => input.call = Call("handleNavigate", "next")
    /\ KeyPressed({"a", "d"}, FALSE) => input.call.fn # "handleAnnotation"

\* C28: the modifier keys of the shortcut table: Ctrl/Cmd+S calls the save
\* handler and not the skip handler, Ctrl/Cmd+Z the undo handler, Ctrl/Cmd+Y
\* the redo handler, and S alone the skip handler.
C28_ModifierKeys ==
    /\ KeyPressed({"s"}, TRUE) => input.call.fn = "handleSave"
    /\ KeyPressed({"z"}, TRUE) => input.call.fn = "handleUndo"
    /\ KeyPressed({"y"}, TRUE) => input.call.fn = "handleRedo"
    /\ KeyPressed({"s"}, FALSE) => input.call.fn = "handleSkip"

\* C29: in every reachable state isLoading is true while an image load (the
\* metadata or the pixel fetch) is in flight; the completion of one load
\* never clears the flag while another load is outstanding.
C29_LoadingWhileInFlight == InFlightFetches # {} => store.isLoading

\* the request a handler issues from the present state, if it issues one,
\* carries the path of the image whose pixels are on display
CarriesDisplayed(out) ==
    out.task.rstatus = "sent" =>
        /\ ~dom.mainImageHidden
        /\ out.task.path = store.image.data

\* C30: in every reachable state, the image_path that annotate, skip or
\* delete would submit is the path of the image whose pixels are displayed,
\* also after a load that failed or whose two round trips did not match.
C30_SubmitsDisplayed ==
    /\ \A label \in Labels :
          CarriesDisplayed(handleAnnotation(Ctx(store), NewTask(0, "handleAnnotation"), label))
    /\ CarriesDisplayed(handleSkip(Ctx(store), NewTask(0, "handleSkip")))
    /\ CarriesDisplayed(handleDelete(Ctx(store), NewTask(0, "handleDelete"), TRUE))

ActionRequests == {"createAnnotation", "skipImage", "deleteImage"}

\* C31: every annotation, skip and delete request carries an image path that
\* belongs to the dataset named in the same request, whatever selectDataset,
\* loads and actions overlap.
C31_PathOfNamedDataset ==
    \A i \in 1..Len(tasks) :
        tasks[i].pc \in ActionRequests => DatasetOf(tasks[i].path) = tasks[i].rds

\* C32: when no operation is in flight and an image is held, the index the
\* client holds is the service's navigation cursor of the current dataset.
C32_IndexIsCursor ==
    (Idle /\ store.currentDataset # null /\ store.image.path # null) =>
        store.image.index = cursor[store.currentDataset]

\* the service has just handled the navigateNext that follows an annotation
\* or a skip
ImplicitNext ==
    /\ ev.kind = "server"
    /\ ev.pc = "navigateNext"
    /\ ev.op \in {"handleAnnotation", "handleSkip"}

\* C33: however annotate and skip invocations overlap, the implicit next
\* advances the cursor once for a displayed image: when it advances, the
\* image it leaves is the one its invocation recorded, so no image is passed
\* over unseen.
C33_NextOncePerImage ==
    ImplicitNext =>
        \A i \in Running :
            (tasks[i].rstatus = "ok" /\ tasks[i].result.success) =>
                images[tasks[i].rds][cursor[tasks[i].rds]] = tasks[i].path

\* the totals the service can have reported for dataset d so far: images are
\* only ever removed from a listing
ReportableTotals(d) == Len(images[d])..Len(InitImages[d])

\* C34: when no operation is in flight, the counts on display are counts the
\* service reported for the selected dataset (or the initial zeros when it
\* has reported none), never those of a dataset selected before, also when
\* the progress request of selectDataset fails or progress responses of two
\* datasets arrive out of order.
C34_CountsOfSelected ==
    (Idle /\ store.currentDataset # null) =>
        /\ store.image.total \in ReportableTotals(store.currentDataset) \cup {0}
        /\ store.stats.watermarked + store.stats.noWatermarked
              <= Len(InitImages[store.currentDataset])

\* how often listener l is registered, and how often it was called
Registered(ls, l) == Cardinality({i \in 1..Len(ls) : ls[i] = l})

Called(cs, l) == Cardinality({i \in 1..Len(cs) : cs[i].listener = l})

SameOthers(l) ==
    \A o \in Listeners \ {l} : Registered(listeners', o) = Registered(listeners, o)

\* C35: calling the function subscribe returned removes that listener and
\* no other; subscribing registers the listener once however often it is
\* subscribed; an update leaves the registrations alone and calls each
\* registered listener once and a removed listener not at all.
C35_Step ==
    /\ ev'.kind = "unsubscribe" => (Registered(listeners', ev'.arg) = 0 /\ SameOthers(ev'.arg))
    /\ ev'.kind = "subscribe" => (Registered(listeners', ev'.arg) = 1 /\ SameOthers(ev'.arg))
    /\ ev'.kind = "update" =>
          /\ listeners' = listeners
          /\ \A l \in Listeners : Called(calls', l) = Registered(listeners, l)
          /\ \A l \in Listeners : Registered(listeners, l) <= 1

C35_UnsubscribeStops == [][C35_Step]_vars

\* an update after the listener of main.js was subscribed again and removed:
\* only the other listener is called
C35_Witness ==
    /\ ev.kind = "update"
    /\ "render" \in closures
    /\ listeners = << "second" >>
    /\ Len(calls) = 1
    /\ calls[1].listener = "second"

====
